---- MODULE Spec2Model ----
(***************************************************************************)
(* Model of the credit-scoring pipeline of server/ml/credit_scoring.py:    *)
(* the command-line entry point main(), the Feature Engineer               *)
(* analyze_data() and the Model Trainer train_models(), together with the  *)
(* files they read and write and the event stream they print.              *)
(*                                                                         *)
(* One process invocation runs from Main to pc = "done"; the file system   *)
(* (fs) survives from one invocation to the next, the event stream         *)
(* (stdout) belongs to the invocation.  Library calls whose outcome        *)
(* depends on the data or on the environment (reading and writing files,   *)
(* splitting, fitting, metrics) either succeed or raise; the ROC-AUC of a  *)
(* candidate is drawn from 0 .. AucScale, standing for AUC * AucScale.     *)
(***************************************************************************)
EXTENDS Integers, Sequences, FiniteSets, TLC

\* ROC-AUC values are the integers 0 .. AucScale (AUC = value / AucScale).
AucScale == 2

----------------------------------------------------------------------------
(* Cells of a data frame.  A number is the exact fraction n/d.            *)

Num(i) == [k |-> "num", n |-> i, d |-> 1, s |-> ""]
Frac(a, b) == [k |-> "num", n |-> a, d |-> b, s |-> ""]
NaN == [k |-> "nan", n |-> 0, d |-> 1, s |-> ""]
Inf == [k |-> "inf", n |-> 0, d |-> 1, s |-> ""]
Str(t) == [k |-> "str", n |-> 0, d |-> 1, s |-> t]

RECURSIVE Gcd(_, _)
Gcd(a, b) == IF b = 0 THEN a ELSE Gcd(b, a % b)

\* A fraction in lowest terms (the catalogue below holds no negative number).
Norm(a, b) ==
    IF a = 0 THEN Num(0) ELSE Frac(a \div Gcd(a, b), b \div Gcd(a, b))

\* Element of  df[a] / df[b]  on float columns: IEEE division.
DivCell(a, b) ==
    IF a.k = "nan" \/ b.k = "nan" THEN NaN
    ELSE IF a.k = "inf" THEN (IF b.k = "inf" THEN NaN ELSE Inf)
    ELSE IF b.k = "inf" THEN Num(0)
    ELSE IF b.n = 0 THEN (IF a.n = 0 THEN NaN ELSE Inf)
    ELSE Norm(a.n * b.d, a.d * b.n)

AddCell(a, b) ==
    IF a.k = "inf" \/ b.k = "inf" THEN Inf
    ELSE Norm(a.n * b.d + b.n * a.d, a.d * b.d)

RECURSIVE SumCells(_)
SumCells(cells) ==
    IF cells = <<>> THEN Num(0)
    ELSE AddCell(Head(cells), SumCells(Tail(cells)))

NotNull(c) == c.k # "nan"

\* Series.mean() / DataFrame.mean(axis=1): the mean of the non-null cells,
\* NaN when there is none.
MeanCells(cells) ==
    LET present == SelectSeq(cells, NotNull)
        total == SumCells(present)
    IN  IF present = <<>> THEN NaN
        ELSE IF total.k = "inf" THEN Inf
        ELSE Norm(total.n, total.d * Len(present))

\* Scalar * 100 of line 81.
Times100(c) == IF c.k = "num" THEN Norm(c.n * 100, c.d) ELSE c

IsNumeric(c) == c.k # "str"

----------------------------------------------------------------------------
(* Sequences                                                               *)

Range(seq) == {seq[i] : i \in 1 .. Len(seq)}

Contains(seq, e) == \E i \in 1 .. Len(seq) : seq[i] = e

IsPrefix(a, b) == Len(a) <= Len(b) /\ SubSeq(b, 1, Len(a)) = a

----------------------------------------------------------------------------
(* Column names.  str.lower() and the substring test of line 63 are given  *)
(* by their value on every name the catalogue and the code use.            *)

Lower(name) ==
    CASE name = "Class" -> "class"
      [] name = "Payment_Delay_1" -> "payment_delay_1"
      [] OTHER -> name

\* 'payment_delay' in col.lower()
HasPaymentDelay(name) ==
    Lower(name) \in {"payment_delay_1", "payment_delay_2", "avg_payment_delays"}

potential_targets == <<"default", "target", "bad_loan", "delinquent", "class">>

----------------------------------------------------------------------------
(* Data frames: the ordered column labels and one series per label.        *)

Frame(cols, nrows, data) == [columns |-> cols, nrows |-> nrows, data |-> data]

\* SetColumn putting a new label before the existing ones.
SetColumn_Prepend(df, c, series) ==
    [columns |-> IF Contains(df.columns, c) THEN df.columns
                 ELSE <<c>> \o df.columns,
     nrows   |-> df.nrows,
     data    |-> [x \in Range(df.columns) \cup {c} |->
                     IF x = c THEN series ELSE df.data[x]]]

\* df[c] = series : replaces the series of an existing label, otherwise
\* appends the label after the existing ones.
SetColumn(df, c, series) ==
    [columns |-> IF Contains(df.columns, c) THEN df.columns
                 ELSE Append(df.columns, c),
     nrows   |-> df.nrows,
     data    |-> [x \in Range(df.columns) \cup {c} |->
                     IF x = c THEN series ELSE df.data[x]]]

\* df.drop(columns=[c])
DropColumn(df, c) ==
    LET NotC(x) == x # c
    IN  [columns |-> SelectSeq(df.columns, NotC),
         nrows   |-> df.nrows,
         data    |-> [x \in Range(df.columns) \ {c} |-> df.data[x]]]

\* df.isnull().sum().sum()
MissingValues(df) ==
    LET RECURSIVE Nulls(_)
        Nulls(cs) ==
            IF cs = <<>> THEN 0
            ELSE Cardinality({i \in 1 .. df.nrows : df.data[Head(cs)][i].k = "nan"})
                 + Nulls(Tail(cs))
    IN  Nulls(df.columns)

\* A series holds numbers only (a float or integer dtype).
NumericSeries(series) == \A i \in 1 .. Len(series) : IsNumeric(series[i])

\* df[a] / df[b]
DivSeries(sa, sb) == [i \in 1 .. Len(sa) |-> DivCell(sa[i], sb[i])]

\* df[cols].mean(axis=1)
RowMeans(df, cols) ==
    [i \in 1 .. df.nrows |-> MeanCells([j \in 1 .. Len(cols) |-> df.data[cols[j]][i]])]

\* FirstTarget going through the candidates in the order of the list and
\* taking the first one that some column has.
FirstTarget_ByCandidate(cols) ==
    LET Has(k) == \E i \in 1 .. Len(cols) : Lower(cols[i]) = potential_targets[k]
        hits == {k \in 1 .. Len(potential_targets) : Has(k)}
        first == CHOOSE k \in hits : \A x \in hits : k <= x
    IN  IF hits = {} THEN ""
        ELSE cols[CHOOSE i \in 1 .. Len(cols) :
                     /\ Lower(cols[i]) = potential_targets[first]
                     /\ \A j \in 1 .. i - 1 : Lower(cols[j]) # potential_targets[first]]

\* The loops of lines 75-78 and 143-146: the first column, in column
\* order, whose lower-cased name is a candidate; "" stands for None.
RECURSIVE FirstTarget(_)
FirstTarget(cols) ==
    IF cols = <<>> THEN ""
    ELSE IF Contains(potential_targets, Lower(Head(cols))) THEN Head(cols)
    ELSE FirstTarget(Tail(cols))

----------------------------------------------------------------------------
(* Files.  A CSV file is its header line and its lines of fields; a        *)
(* missing value is written as an empty field and an empty field, or one   *)
(* of the NA spellings, is read back as a missing value.                   *)

Field(c) == IF c.k = "nan" THEN Str("") ELSE c

NaSpellings == {"", "NA", "NaN", "null"}

Parse(f) == IF f.k = "str" /\ f.s \in NaSpellings THEN NaN ELSE f

CsvFile(header, lines) ==
    [kind |-> "csv", header |-> header, lines |-> lines, model |-> ""]

XlsFile(header, lines) ==
    [kind |-> "xls", header |-> header, lines |-> lines, model |-> ""]

JoblibFile(m) == [kind |-> "joblib", header |-> <<>>, lines |-> <<>>, model |-> m]

\* What an interrupted to_csv leaves: the file was opened for writing.
EmptyFile == CsvFile(<<>>, <<>>)

\* df.to_csv(path, index=False)
ToCsv(df) ==
    CsvFile(df.columns,
            [i \in 1 .. df.nrows |->
                [j \in 1 .. Len(df.columns) |-> Field(df.data[df.columns[j]][i])]])

\* The position of label c in a header.
IndexOf(header, c) == CHOOSE j \in 1 .. Len(header) : header[j] = c

\* pd.read_csv / pd.read_excel of a file with a header line.
ReadTable(file) ==
    Frame(file.header, Len(file.lines),
          [c \in Range(file.header) |->
              [i \in 1 .. Len(file.lines) |->
                  Parse(file.lines[i][IndexOf(file.header, c)])]])

\* pd.read_csv raises EmptyDataError on a file without a header line.
Readable(file) == file.header # <<>>

----------------------------------------------------------------------------
(* Paths.  A path is the sequence of the pieces the code formats it from,  *)
(* so that str.endswith and the f-strings of lines 97, 132 and 268 are     *)
(* operations on it.                                                       *)

\* The path as the one string the f-string gives.
RECURSIVE PathString(_)
PathString(path) == IF path = <<>> THEN "" ELSE Head(path) \o PathString(Tail(path))

EndsWith(path, suffix) == path # <<>> /\ path[Len(path)] = suffix

ProcessedFile(project_id) == <<"server/uploads/processed_", project_id, ".csv">>

ModelFile(project_id, model_name) ==
    <<"server/uploads/model_", project_id, "_", model_name, ".joblib">>

----------------------------------------------------------------------------
(* The uploaded files the invocations are run on.                          *)

FullPath == <<"uploads/full", ".csv">>
NoTargetPath == <<"uploads/notarget", ".xlsx">>
LabelsPath == <<"uploads/labels", ".csv">>
ReportPath == <<"uploads/report", ".txt">>

\* The dataset of the end-to-end scenario, two of its rows.
FullFile ==
    CsvFile(<<"debt_payments", "income", "credit_used", "credit_limit",
              "payment_delay_1", "payment_delay_2", "default">>,
            << <<Num(2), Num(4), Num(1), Num(2), Num(1), Num(3), Num(0)>>,
               <<Num(3), Num(6), Num(3), Num(4), Num(0), Num(4), Num(1)>> >>)

\* No candidate target name; a missing value in each row.
NoTargetFile ==
    XlsFile(<<"income", "Payment_Delay_1", "credit_used">>,
            << <<Num(5), Str(""), Num(1)>>,
               <<Num(0), Num(2), Str("NA")>> >>)

\* A target column of labels, whose mean cannot be computed.
LabelsFile ==
    CsvFile(<<"grade", "class">>,
            << <<Str("A"), Str("good")>>,
               <<Str("B"), Str("bad")>> >>)

ReportFile == CsvFile(<<"default">>, << <<Num(1)>> >>)

UploadPaths == {FullPath, NoTargetPath, LabelsPath, ReportPath}

Uploads ==
    [p \in UploadPaths |->
        CASE p = FullPath -> FullFile
          [] p = NoTargetPath -> NoTargetFile
          [] p = LabelsPath -> LabelsFile
          [] OTHER -> ReportFile]

Projects == {"p1", "p2"}

\* sys.argv[1:] of an invocation.
ArgLists ==
    {<<c, f, p>> : c \in {"analyze", "train"}, f \in UploadPaths, p \in Projects}
        \cup {<<"predict", FullPath, "p1">>, <<"train", FullPath>>}

----------------------------------------------------------------------------
(* Events.  `py' is the set of the Python types of the values the event    *)
(* holds; json.dumps raises TypeError on a value that is none of the       *)
(* types it encodes (numpy.float64 is a float, numpy.int64 is no int).     *)

JsonTypes == {"str", "int", "float", "numpy.float64", "NoneType", "list", "dict"}

JsonSerializable(ev) == ev.py \subseteq JsonTypes

FeatureEvent(feature) ==
    [type |-> "feature_engineering", name |-> feature, status |-> "completed",
     py |-> {"str"}]

ErrorEvent(message) ==
    [type |-> "error", name |-> "", status |-> "", message |-> message,
     py |-> {"str"}]

\* A line printed by print() that is no JSON object.
TextLine(text) == [type |-> "", name |-> text, status |-> "", py |-> {"str"}]

\* Lines 101-117.  len() gives an int, the double sum of line 39 a
\* numpy.int64, the mean of line 81 a numpy.float64, line 83 the int 0.
SummaryEvent(records, features, missing, rate, quality, columns, target_col) ==
    [type |-> "dataset_summary", name |-> "", status |-> "",
     totalRecords |-> records, features |-> features,
     missingValues |-> missing, defaultRate |-> rate,
     dataQuality |-> quality, columns |-> columns,
     target_column |-> target_col,
     py |-> {"str", "int", "list", "dict", "numpy.int64"}
               \cup (IF target_col = "" THEN {"NoneType"} ELSE {"numpy.float64"})]

TrainingEvent(model_name) ==
    [type |-> "model_update", name |-> model_name, status |-> "training",
     py |-> {"str", "int"}]

\* Lines 286-300: the metrics are floats, the training time an int, the
\* importances and hyperparameters lists and dicts of Python values.
CompletedEvent(model_name, roc_auc) ==
    [type |-> "model_update", name |-> model_name, status |-> "completed",
     rocAuc |-> roc_auc,
     py |-> {"str", "int", "float", "numpy.float64", "list", "dict", "NoneType"}]

RocDataEvent(keys) ==
    [type |-> "roc_data", name |-> "", status |-> "", keys |-> keys,
     py |-> {"str", "float", "list", "dict"}]

\* best_model is None while no candidate has scored above 0; "" stands
\* for None.
BestModelEvent(best_model, best_score) ==
    [type |-> "best_model", name |-> best_model, status |-> "",
     score |-> best_score,
     py |-> {"str", "dict", IF best_score = 0 THEN "int" ELSE "float"}
               \cup (IF best_model = "" THEN {"NoneType"} ELSE {})]

\* What the claims compare: the kind of an event.
Kind(ev) == <<ev.type, ev.name, ev.status>>

OfType(evs, types) ==
    LET Keep(ev) == ev.type \in types IN SelectSeq(evs, Keep)

Count(evs, types) == Len(OfType(evs, types))

----------------------------------------------------------------------------
(* State                                                                   *)

VARIABLES
    fs,       \* the files: path -> content, for the paths that exist
    stdout,   \* the lines the running invocation has printed
    pc,       \* the statement the invocation is at
    argv,     \* sys.argv[1:] of the invocation
    an,       \* the frame of analyze_data
    ret,      \* the value analyze_data returned
    tr,       \* the frame of train_models
    fs0,      \* history: the files when the invocation started
    reads,    \* history: the paths the invocation has read
    calls,    \* history: how often the invocation has entered analyze_data
    faults,   \* history: the environment made a library call raise
    raised,   \* history: an exception left a stage uncaught
    earlier,  \* history: the lines of the earlier invocations of a scenario
    tables,         \* the database: table -> (identifier -> row)
    sequences,      \* the database: table -> the inserts it has numbered
    dialect,        \* the database: how it numbers the rows of a table
    open_sessions,  \* the sessions opened and not closed
    op,             \* history: the last DatabaseManager operation
    tables0         \* history: the tables before that operation

\* The state of the program of credit_scoring.py and that of the database.
program ==
    <<fs, stdout, pc, argv, an, ret, tr, fs0, reads, calls, faults, raised,
      earlier>>

database == <<tables, sequences, dialect, open_sessions, op, tables0>>

vars ==
    <<fs, stdout, pc, argv, an, ret, tr, fs0, reads, calls, faults, raised,
      earlier, tables, sequences, dialect, open_sessions, op, tables0>>

NoFrame == Frame(<<>>, 0, <<>>)

\* analyze_data before its first statement.
NoAnalyze ==
    [file_path |-> <<>>, project_id |-> "", caller |-> "",
     df |-> NoFrame, df_processed |-> NoFrame,
     total_records |-> 0, features |-> 0, missing_values |-> 0,
     target_col |-> "", default_rate |-> Num(0), data_quality |-> "", e |-> ""]

NoReturn == [none |-> TRUE, df |-> NoFrame, target_col |-> ""]

model_names == <<"logistic_regression", "decision_tree", "random_forest">>

\* train_models before its first statement; line 206-208 set best_model,
\* best_score and results.
NoTrain ==
    [file_path |-> <<>>, project_id |-> "", df |-> NoFrame, target_col |-> "",
     X |-> NoFrame, i |-> 0, roc_auc |-> 0, best_model |-> "", best_score |-> 0,
     results |-> <<>>, e |-> ""]

----------------------------------------------------------------------------
(* DatabaseManager, src/utils/database_manager.py: the values.  A Python   *)
(* value that is None, a dict or a list is a record of its type and its    *)
(* items; a table is a function from the identifiers of its rows.          *)

PyNone == [py |-> "None", items |-> <<>>]

PyDict(items) == [py |-> "dict", items |-> items]

PyList(items) == [py |-> "list", items |-> items]

\* bool(value), as in `if hyperparameters' : None and the empty ones are false.
Truthy(value) == value.py # "None" /\ value.items # <<>>

\* metrics.get(key) of a key the dict does not have.
NoMetric == 0 - 1

NoTable == [id \in {} |-> PyNone]

EmptyTables ==
    [datasets |-> NoTable, models |-> NoTable, processing_pipelines |-> NoTable,
     prediction_logs |-> NoTable]

NoSequences ==
    [datasets |-> 0, models |-> 0, processing_pipelines |-> 0, prediction_logs |-> 0]

\* What an operation is called with, and what it returns.
NoArgs ==
    [id |-> 0, data |-> NoFrame, name |-> "", description |-> "", model |-> "",
     metrics |-> <<>>, hyperparameters |-> PyNone, feature_names |-> PyNone]

NoResult ==
    [kind |-> "", id |-> 0, flag |-> FALSE, data |-> NoFrame, name |-> "",
     description |-> "", model |-> "", metadata |-> <<>>]

\* No operation has been called yet.
NoOp ==
    [name |-> "", args |-> NoArgs, fault |-> "", raised |-> FALSE,
     result |-> NoResult, session |-> <<>>]

\* The program of credit_scoring.py does not use the database.
NoDatabase ==
    /\ tables = EmptyTables
    /\ sequences = NoSequences
    /\ dialect = "sequence"
    /\ open_sessions = 0
    /\ op = NoOp
    /\ tables0 = EmptyTables

Init ==
    /\ fs = Uploads
    /\ stdout = <<>>
    /\ pc = "done"
    /\ argv = <<>>
    /\ an = NoAnalyze
    /\ ret = NoReturn
    /\ tr = NoTrain
    /\ fs0 = Uploads
    /\ reads = {}
    /\ calls = 0
    /\ faults = FALSE
    /\ raised = FALSE
    /\ earlier = <<>>
    /\ NoDatabase

\* os.path.exists
Exists(path) == path \in DOMAIN fs

\* The files after writing content to path.
Written(path, content) ==
    [p \in DOMAIN fs \cup {path} |-> IF p = path THEN content ELSE fs[p]]

----------------------------------------------------------------------------
(* main(), lines 331-345                                                   *)

\* Main running train_models for every command but analyze.
Main_ElseTrain(args) ==
    /\ pc = "done"
    /\ argv' = args
    /\ fs0' = fs
    /\ reads' = {}
    /\ calls' = IF Len(args) >= 3 /\ args[1] = "analyze" THEN 1 ELSE 0
    /\ raised' = FALSE
    /\ ret' = NoReturn
    /\ IF Len(args) < 3
       THEN /\ stdout' = <<TextLine("usage")>>
            /\ pc' = "done"
            /\ an' = NoAnalyze
            /\ tr' = NoTrain
       ELSE IF args[1] = "analyze"
       THEN /\ stdout' = <<>>
            /\ pc' = "an_load"
            /\ an' = [NoAnalyze EXCEPT !.file_path = args[2],
                                       !.project_id = args[3],
                                       !.caller = "main"]
            /\ tr' = NoTrain
       ELSE /\ stdout' = <<>>
            /\ pc' = "tr_load"
            /\ an' = NoAnalyze
            /\ tr' = [NoTrain EXCEPT !.file_path = args[2],
                                     !.project_id = args[3]]
    /\ UNCHANGED <<fs, database>>

\* A new process is started with the arguments args.  What is kept of the
\* process before it (faults, earlier) is for the caller of Main to say.
Main(args) ==
    /\ pc = "done"
    /\ argv' = args
    /\ fs0' = fs
    /\ reads' = {}
    /\ calls' = IF Len(args) >= 3 /\ args[1] = "analyze" THEN 1 ELSE 0
    /\ raised' = FALSE
    /\ ret' = NoReturn
    /\ IF Len(args) < 3
       THEN /\ stdout' = <<TextLine("usage")>>
            /\ pc' = "done"
            /\ an' = NoAnalyze
            /\ tr' = NoTrain
       ELSE IF args[1] = "analyze"
       THEN /\ stdout' = <<>>
            /\ pc' = "an_load"
            /\ an' = [NoAnalyze EXCEPT !.file_path = args[2],
                                       !.project_id = args[3],
                                       !.caller = "main"]
            /\ tr' = NoTrain
       ELSE IF args[1] = "train"
       THEN /\ stdout' = <<>>
            /\ pc' = "tr_load"
            /\ an' = NoAnalyze
            /\ tr' = [NoTrain EXCEPT !.file_path = args[2],
                                     !.project_id = args[3]]
       ELSE /\ stdout' = <<TextLine("unknown command")>>
            /\ pc' = "done"
            /\ an' = NoAnalyze
            /\ tr' = NoTrain
    /\ UNCHANGED <<fs, database>>

----------------------------------------------------------------------------
(* log_output, lines 20-23: json.dumps of the event, then one line on      *)
(* stdout.  The value is stdout after the call; the call raises TypeError  *)
(* when the event is not JsonSerializable.                                 *)

log_output(data) == Append(stdout, data)

----------------------------------------------------------------------------
(* analyze_data, lines 25-126                                              *)

SupportedFormat(file_path) ==
    EndsWith(file_path, ".csv") \/ EndsWith(file_path, ".xlsx")
        \/ EndsWith(file_path, ".xls")

\* DataQuality with thresholds that include their own value.
DataQuality_AtLeast(total_records, features, missing_values) ==
    LET cells == total_records * features
        present100 == (cells - missing_values) * 100
    IN  IF cells = 0 THEN "Poor"
        ELSE IF present100 >= 95 * cells THEN "Excellent"
        ELSE IF present100 >= 85 * cells THEN "Good"
        ELSE IF present100 >= 70 * cells THEN "Fair"
        ELSE "Poor"

\* Lines 85-94.  completeness > t  is  (cells - missing) * 100 > t * cells;
\* with no cell the quotient of line 86 is NaN and every comparison False.
DataQuality(total_records, features, missing_values) ==
    LET cells == total_records * features
        present100 == (cells - missing_values) * 100
    IN  IF cells = 0 THEN "Poor"
        ELSE IF present100 > 95 * cells THEN "Excellent"
        ELSE IF present100 > 85 * cells THEN "Good"
        ELSE IF present100 > 70 * cells THEN "Fair"
        ELSE "Poor"

\* The statement after analyze_data returns.
AnalyzeReturn == IF an.caller = "main" THEN "done" ELSE "tr_after_analyze"

\* Lines 28-42: load by extension, count, copy.
AnalyzeLoad ==
    /\ pc = "an_load"
    /\ \E ok \in BOOLEAN :
        LET supported == SupportedFormat(an.file_path)
            loads == /\ supported
                     /\ ok
                     /\ Exists(an.file_path)
                     /\ Readable(fs[an.file_path])
        IN  /\ reads' = IF supported THEN reads \cup {an.file_path} ELSE reads
            /\ faults' = (faults \/ (supported /\ ~ok))
            /\ IF loads
               THEN LET df == ReadTable(fs[an.file_path])
                    IN  /\ an' = [an EXCEPT !.df = df,
                                            !.total_records = df.nrows,
                                            !.features = Len(df.columns),
                                            !.missing_values = MissingValues(df),
                                            !.df_processed = df]
                        /\ pc' = "an_debt"
               ELSE /\ an' = [an EXCEPT !.e = IF supported THEN "cannot read file"
                                              ELSE "Unsupported file format"]
                    /\ pc' = "an_except"
    /\ UNCHANGED <<fs, stdout, argv, ret, tr, fs0, calls, raised, earlier, database>>

\* The shape of lines 45-51 and 54-60: a quotient of two columns, added
\* when both are present; the division raises TypeError on text.
AnalyzeRatio(at, next, numerator, denominator, feature) ==
    /\ pc = at
    /\ IF Contains(an.df.columns, numerator) /\ Contains(an.df.columns, denominator)
       THEN IF NumericSeries(an.df.data[numerator])
                  /\ NumericSeries(an.df.data[denominator])
            THEN /\ an' = [an EXCEPT !.df_processed =
                              SetColumn(an.df_processed, feature,
                                        DivSeries(an.df.data[numerator],
                                                  an.df.data[denominator]))]
                 /\ stdout' = log_output(FeatureEvent(feature))
                 /\ pc' = next
            ELSE /\ an' = [an EXCEPT !.e = "unsupported operand type(s) for /"]
                 /\ pc' = "an_except"
                 /\ UNCHANGED stdout
       ELSE /\ pc' = next
            /\ UNCHANGED <<an, stdout>>
    /\ UNCHANGED <<fs, argv, ret, tr, fs0, reads, calls, faults, raised, earlier, database>>

\* Lines 44-51.
AnalyzeDebtToIncome ==
    AnalyzeRatio("an_debt", "an_credit", "debt_payments", "income",
                 "debt_to_income_ratio")

\* Lines 53-60.
AnalyzeCreditUtilization ==
    AnalyzeRatio("an_credit", "an_delays", "credit_used", "credit_limit",
                 "credit_utilization_rate")

\* Line 63.
payment_delay_cols(df) == SelectSeq(df.columns, HasPaymentDelay)

\* AnalyzePaymentDelays with the event of lines 66-70 outside the if.
AnalyzePaymentDelays_Always ==
    /\ pc = "an_delays"
    /\ LET cols == payment_delay_cols(an.df)
       IN  IF cols # <<>>
           THEN an' = [an EXCEPT !.df_processed =
                          SetColumn(an.df_processed, "avg_payment_delays",
                                    RowMeans(an.df, cols))]
           ELSE UNCHANGED an
    /\ stdout' = log_output(FeatureEvent("avg_payment_delays"))
    /\ pc' = "an_target"
    /\ UNCHANGED <<fs, argv, ret, tr, fs0, reads, calls, faults, raised, earlier, database>>

\* Lines 62-70.
AnalyzePaymentDelays ==
    /\ pc = "an_delays"
    /\ LET cols == payment_delay_cols(an.df)
       IN  IF cols # <<>>
           THEN /\ an' = [an EXCEPT !.df_processed =
                             SetColumn(an.df_processed, "avg_payment_delays",
                                       RowMeans(an.df, cols))]
                /\ stdout' = log_output(FeatureEvent("avg_payment_delays"))
           ELSE UNCHANGED <<an, stdout>>
    /\ pc' = "an_target"
    /\ UNCHANGED <<fs, argv, ret, tr, fs0, reads, calls, faults, raised, earlier, database>>

\* Lines 72-94: the target column, the default rate, the quality label.
\* The mean of a column of text raises TypeError.
AnalyzeTarget ==
    /\ pc = "an_target"
    /\ LET target_col == FirstTarget(an.df.columns)
       IN  IF target_col # "" /\ ~NumericSeries(an.df.data[target_col])
           THEN /\ an' = [an EXCEPT !.target_col = target_col,
                                    !.e = "Could not convert to numeric"]
                /\ pc' = "an_except"
           ELSE /\ an' = [an EXCEPT
                            !.target_col = target_col,
                            !.default_rate =
                                IF target_col # ""
                                THEN Times100(MeanCells(an.df.data[target_col]))
                                ELSE Num(0),
                            !.data_quality =
                                DataQuality(an.total_records, an.features,
                                            an.missing_values)]
                /\ pc' = "an_persist"
    /\ UNCHANGED <<fs, stdout, argv, ret, tr, fs0, reads, calls, faults, raised, earlier, database>>

\* AnalyzePersist saving the raw frame df instead of df_processed.
AnalyzePersist_Raw ==
    /\ pc = "an_persist"
    /\ \E outcome \in {"written", "refused", "interrupted"} :
        LET processed_file == ProcessedFile(an.project_id)
        IN  /\ fs' = CASE outcome = "written" ->
                            Written(processed_file, ToCsv(an.df))
                       [] outcome = "interrupted" ->
                            Written(processed_file, EmptyFile)
                       [] OTHER -> fs
            /\ faults' = (faults \/ outcome # "written")
            /\ IF outcome = "written"
               THEN /\ pc' = "an_summary"
                    /\ UNCHANGED an
               ELSE /\ pc' = "an_except"
                    /\ an' = [an EXCEPT !.e = "cannot write file"]
    /\ UNCHANGED <<stdout, argv, ret, tr, fs0, reads, calls, raised, earlier, database>>

\* Lines 96-98.  to_csv writes the file, or cannot open it, or stops
\* after opening it.
AnalyzePersist ==
    /\ pc = "an_persist"
    /\ \E outcome \in {"written", "refused", "interrupted"} :
        LET processed_file == ProcessedFile(an.project_id)
        IN  /\ fs' = CASE outcome = "written" ->
                            Written(processed_file, ToCsv(an.df_processed))
                       [] outcome = "interrupted" ->
                            Written(processed_file, EmptyFile)
                       [] OTHER -> fs
            /\ faults' = (faults \/ outcome # "written")
            /\ IF outcome = "written"
               THEN /\ pc' = "an_summary"
                    /\ UNCHANGED an
               ELSE /\ pc' = "an_except"
                    /\ an' = [an EXCEPT !.e = "cannot write file"]
    /\ UNCHANGED <<stdout, argv, ret, tr, fs0, reads, calls, raised, earlier, database>>

\* Lines 100-119: the summary event, then return (df_processed, target_col).
AnalyzeSummary ==
    /\ pc = "an_summary"
    /\ LET summary == SummaryEvent(an.total_records, an.features,
                                   an.missing_values, an.default_rate,
                                   an.data_quality, an.df.columns, an.target_col)
       IN  IF JsonSerializable(summary)
           THEN /\ stdout' = log_output(summary)
                /\ ret' = [none |-> FALSE, df |-> an.df_processed,
                           target_col |-> an.target_col]
                /\ pc' = AnalyzeReturn
                /\ UNCHANGED an
           ELSE /\ an' = [an EXCEPT !.e = "Object of type int64 is not JSON serializable"]
                /\ pc' = "an_except"
                /\ UNCHANGED <<stdout, ret>>
    /\ UNCHANGED <<fs, argv, tr, fs0, reads, calls, faults, raised, earlier, database>>

\* AnalyzeExcept letting the exception go on to the caller.
AnalyzeExcept_Reraise ==
    /\ pc = "an_except"
    /\ raised' = TRUE
    /\ ret' = NoReturn
    /\ pc' = "done"
    /\ UNCHANGED <<fs, stdout, argv, an, tr, fs0, reads, calls, faults, earlier, database>>

\* Lines 121-126: except Exception: one error event, return (None, None).
AnalyzeExcept ==
    /\ pc = "an_except"
    /\ stdout' = log_output(ErrorEvent("Error analyzing data: " \o an.e))
    /\ ret' = NoReturn
    /\ pc' = AnalyzeReturn
    /\ UNCHANGED <<fs, argv, an, tr, fs0, reads, calls, faults, raised, earlier, database>>

----------------------------------------------------------------------------
(* train_models, lines 128-329                                             *)

\* TrainLoad engineering again whether or not the processed file exists.
TrainLoad_AlwaysAnalyze ==
    /\ pc = "tr_load"
    /\ an' = [NoAnalyze EXCEPT !.file_path = tr.file_path,
                               !.project_id = tr.project_id,
                               !.caller = "train"]
    /\ calls' = calls + 1
    /\ pc' = "an_load"
    /\ UNCHANGED <<fs, stdout, argv, ret, tr, fs0, reads, faults, raised, earlier, database>>

\* Lines 131-136: the processed file if it exists, else analyze_data.
TrainLoad ==
    /\ pc = "tr_load"
    /\ LET processed_file == ProcessedFile(tr.project_id)
       IN  IF Exists(processed_file)
           THEN \E ok \in BOOLEAN :
                    /\ reads' = reads \cup {processed_file}
                    /\ faults' = (faults \/ ~ok)
                    /\ IF ok /\ Readable(fs[processed_file])
                       THEN /\ tr' = [tr EXCEPT !.df = ReadTable(fs[processed_file])]
                            /\ pc' = "tr_target"
                       ELSE /\ tr' = [tr EXCEPT !.e = "cannot read file"]
                            /\ pc' = "tr_except"
                    /\ UNCHANGED <<an, calls>>
           ELSE /\ an' = [NoAnalyze EXCEPT !.file_path = tr.file_path,
                                           !.project_id = tr.project_id,
                                           !.caller = "train"]
                /\ calls' = calls + 1
                /\ pc' = "an_load"
                /\ UNCHANGED <<tr, reads, faults>>
    /\ UNCHANGED <<fs, stdout, argv, ret, fs0, raised, earlier, database>>

\* TrainAfterAnalyze without the test of line 137.
TrainAfterAnalyze_NoCheck ==
    /\ pc = "tr_after_analyze"
    /\ tr' = [tr EXCEPT !.df = ret.df]
    /\ pc' = "tr_target"
    /\ UNCHANGED <<fs, stdout, argv, an, ret, fs0, reads, calls, faults, raised, earlier, database>>

\* Lines 136-138: df, target_col = analyze_data(...); if df is None: return.
TrainAfterAnalyze ==
    /\ pc = "tr_after_analyze"
    /\ IF ret.none
       THEN /\ pc' = "done"
            /\ UNCHANGED tr
       ELSE /\ tr' = [tr EXCEPT !.df = ret.df]
            /\ pc' = "tr_target"
    /\ UNCHANGED <<fs, stdout, argv, an, ret, fs0, reads, calls, faults, raised, earlier, database>>

\* TrainTarget without the return of line 153.
TrainTarget_NoReturn ==
    /\ pc = "tr_target"
    /\ LET target_col == FirstTarget(tr.df.columns)
       IN  /\ stdout' = IF target_col = ""
                        THEN log_output(ErrorEvent("No target column found for training"))
                        ELSE stdout
           /\ tr' = [tr EXCEPT !.target_col = target_col]
           /\ pc' = "tr_prepare"
    /\ UNCHANGED <<fs, argv, an, ret, fs0, reads, calls, faults, raised, earlier, database>>

\* Lines 140-153: the target column, or the error event and return.
TrainTarget ==
    /\ pc = "tr_target"
    /\ LET target_col == FirstTarget(tr.df.columns)
       IN  IF target_col = ""
           THEN /\ stdout' = log_output(ErrorEvent("No target column found for training"))
                /\ pc' = "done"
                /\ UNCHANGED tr
           ELSE /\ tr' = [tr EXCEPT !.target_col = target_col]
                /\ pc' = "tr_prepare"
                /\ UNCHANGED stdout
    /\ UNCHANGED <<fs, argv, an, ret, fs0, reads, calls, faults, raised, earlier, database>>

\* Line 160: the columns of dtype object, those read with a field of text.
IsObject(series) == \E i \in 1 .. Len(series) : series[i].k = "str"

\* Line 165, astype(str): text as it is, a missing value as "nan".
AsStr(c) == IF c.k = "str" THEN c.s ELSE IF c.k = "nan" THEN "nan" ELSE ToString(c.n)

\* The order of str, by code point, on the texts of the catalogue.
SortedStrings == <<"A", "B", "bad", "good", "nan">>

StrBefore(a, b) ==
    \E i, j \in 1 .. Len(SortedStrings) :
        SortedStrings[i] = a /\ SortedStrings[j] = b /\ i < j

\* LabelEncode numbering the values as they first come in the column.
LabelEncode_FirstSeen(series) ==
    LET strs == [i \in 1 .. Len(series) |-> AsStr(series[i])]
        First(v) == CHOOSE i \in 1 .. Len(strs) :
                        strs[i] = v /\ \A j \in 1 .. i - 1 : strs[j] # v
    IN  [i \in 1 .. Len(series) |->
            Num(Cardinality({v \in Range(strs) : First(v) < First(strs[i])}))]

\* Line 165, LabelEncoder().fit_transform: classes_ is the sorted array of
\* the distinct values and the code of a value is its position in it.
LabelEncode(series) ==
    LET strs == [i \in 1 .. Len(series) |-> AsStr(series[i])]
    IN  [i \in 1 .. Len(series) |->
            Num(Cardinality({v \in Range(strs) : StrBefore(v, strs[i])}))]

\* Lines 160-166: one encoder for each column of dtype object.
EncodeFrame(X) ==
    [X EXCEPT !.data = [c \in DOMAIN X.data |->
                           IF IsObject(X.data[c]) THEN LabelEncode(X.data[c])
                           ELSE X.data[c]]]

\* Lines 155-208: features and label, encoding, split, scaling, the
\* candidates.  Any of the library calls may raise on the data.
TrainPrepare ==
    /\ pc = "tr_prepare"
    /\ \E ok \in BOOLEAN :
        /\ faults' = (faults \/ ~ok)
        /\ IF ok
           THEN /\ tr' = [tr EXCEPT !.X = EncodeFrame(DropColumn(tr.df, tr.target_col)),
                                    !.i = 1,
                                    !.best_model = "",
                                    !.best_score = 0,
                                    !.results = <<>>]
                /\ pc' = "tr_training"
           ELSE /\ tr' = [tr EXCEPT !.e = "cannot prepare data"]
                /\ pc' = "tr_except"
    /\ UNCHANGED <<fs, stdout, argv, an, ret, fs0, reads, calls, raised, earlier, database>>

\* TrainStart naming the first candidate in every round of the loop.
TrainStart_First ==
    /\ pc = "tr_training"
    /\ stdout' = log_output(TrainingEvent(model_names[1]))
    /\ pc' = "tr_fit"
    /\ UNCHANGED <<fs, argv, an, ret, tr, fs0, reads, calls, faults, raised, earlier, database>>

\* Lines 210-218: the next candidate of the dict, its "training" event.
TrainStart ==
    /\ pc = "tr_training"
    /\ stdout' = log_output(TrainingEvent(model_names[tr.i]))
    /\ pc' = "tr_fit"
    /\ UNCHANGED <<fs, argv, an, ret, tr, fs0, reads, calls, faults, raised, earlier, database>>

\* Lines 220-243: grid search, best estimator, predictions.
TrainFit ==
    /\ pc = "tr_fit"
    /\ \E ok \in BOOLEAN :
        /\ faults' = (faults \/ ~ok)
        /\ IF ok
           THEN /\ pc' = "tr_metrics"
                /\ UNCHANGED tr
           ELSE /\ tr' = [tr EXCEPT !.e = "cannot fit model"]
                /\ pc' = "tr_except"
    /\ UNCHANGED <<fs, stdout, argv, an, ret, fs0, reads, calls, raised, earlier, database>>

\* Lines 245-265: the metrics; roc_auc_score gives a value in [0, 1] or
\* raises (a test split with one class).
TrainMetrics ==
    /\ pc = "tr_metrics"
    /\ \E ok \in BOOLEAN, roc_auc \in 0 .. AucScale :
        /\ faults' = (faults \/ ~ok)
        /\ IF ok
           THEN /\ tr' = [tr EXCEPT !.roc_auc = roc_auc]
                /\ pc' = "tr_save"
           ELSE /\ tr' = [tr EXCEPT !.e = "cannot compute metrics"]
                /\ pc' = "tr_except"
    /\ UNCHANGED <<fs, stdout, argv, an, ret, fs0, reads, calls, raised, earlier, database>>

\* TrainSave going on without the joblib.dump of line 269.
TrainSave_NoDump ==
    /\ pc = "tr_save"
    /\ \E ok \in BOOLEAN :
        /\ faults' = (faults \/ ~ok)
        /\ IF ok
           THEN /\ pc' = "tr_completed"
                /\ UNCHANGED tr
           ELSE /\ tr' = [tr EXCEPT !.e = "cannot write model"]
                /\ pc' = "tr_except"
    /\ UNCHANGED <<fs, stdout, argv, an, ret, fs0, reads, calls, raised, earlier, database>>

\* Lines 267-269: joblib.dump of the fitted estimator.
TrainSave ==
    /\ pc = "tr_save"
    /\ \E ok \in BOOLEAN :
        /\ faults' = (faults \/ ~ok)
        /\ IF ok
           THEN /\ fs' = Written(ModelFile(tr.project_id, model_names[tr.i]),
                                 JoblibFile(model_names[tr.i]))
                /\ pc' = "tr_completed"
                /\ UNCHANGED tr
           ELSE /\ tr' = [tr EXCEPT !.e = "cannot write model"]
                /\ pc' = "tr_except"
                /\ UNCHANGED fs
    /\ UNCHANGED <<stdout, argv, an, ret, fs0, reads, calls, raised, earlier, database>>

\* Line 282.
IsBetter(roc_auc, best_score) == roc_auc > best_score

\* Lines 271-300: the result, the running best, the "completed" event,
\* then the next candidate or the end of the loop.
TrainCompleted ==
    /\ pc = "tr_completed"
    /\ LET model_name == model_names[tr.i]
           better == IsBetter(tr.roc_auc, tr.best_score)
       IN  /\ tr' = [tr EXCEPT
                        !.results = Append(@, [name |-> model_name,
                                               roc_auc |-> tr.roc_auc]),
                        !.best_score = IF better THEN tr.roc_auc ELSE @,
                        !.best_model = IF better THEN model_name ELSE @,
                        !.i = @ + 1]
           /\ stdout' = log_output(CompletedEvent(model_name, tr.roc_auc))
    /\ pc' = IF tr.i < Len(model_names) THEN "tr_training" ELSE "tr_roc"
    /\ UNCHANGED <<fs, argv, an, ret, fs0, reads, calls, faults, raised, earlier, database>>

\* Lines 302-315: the ROC curves of the results, one roc_data event.
TrainRocData ==
    /\ pc = "tr_roc"
    /\ \E ok \in BOOLEAN :
        /\ faults' = (faults \/ ~ok)
        /\ IF ok
           THEN /\ stdout' = log_output(RocDataEvent(
                                {tr.results[j].name : j \in 1 .. Len(tr.results)}))
                /\ pc' = "tr_best"
                /\ UNCHANGED tr
           ELSE /\ tr' = [tr EXCEPT !.e = "cannot compute ROC curve"]
                /\ pc' = "tr_except"
                /\ UNCHANGED stdout
    /\ UNCHANGED <<fs, argv, an, ret, fs0, reads, calls, raised, earlier, database>>

\* Lines 317-323.
TrainBestModel ==
    /\ pc = "tr_best"
    /\ stdout' = log_output(BestModelEvent(tr.best_model, tr.best_score))
    /\ pc' = "done"
    /\ UNCHANGED <<fs, argv, an, ret, tr, fs0, reads, calls, faults, raised, earlier, database>>

\* TrainExcept letting the exception go on to the caller.
TrainExcept_Reraise ==
    /\ pc = "tr_except"
    /\ raised' = TRUE
    /\ pc' = "done"
    /\ UNCHANGED <<fs, stdout, argv, an, ret, tr, fs0, reads, calls, faults, earlier, database>>

\* Lines 325-329: except Exception: one error event.
TrainExcept ==
    /\ pc = "tr_except"
    /\ stdout' = log_output(ErrorEvent("Error training models: " \o tr.e))
    /\ pc' = "done"
    /\ UNCHANGED <<fs, argv, an, ret, tr, fs0, reads, calls, faults, raised, earlier, database>>

----------------------------------------------------------------------------
(* The program: invocations one after the other.                          *)

\* An invocation on its own: nothing of the earlier ones is followed.
Invoke ==
    \E args \in ArgLists :
        /\ Main(args)
        /\ faults' = FALSE
        /\ earlier' = <<>>

\* The statements of a running invocation.
Steps ==
    \/ AnalyzeLoad
    \/ AnalyzeDebtToIncome
    \/ AnalyzeCreditUtilization
    \/ AnalyzePaymentDelays
    \/ AnalyzeTarget
    \/ AnalyzePersist
    \/ AnalyzeSummary
    \/ AnalyzeExcept
    \/ TrainLoad
    \/ TrainAfterAnalyze
    \/ TrainTarget
    \/ TrainPrepare
    \/ TrainStart
    \/ TrainFit
    \/ TrainMetrics
    \/ TrainSave
    \/ TrainCompleted
    \/ TrainRocData
    \/ TrainBestModel
    \/ TrainExcept

Next == Invoke \/ Steps

Spec == Init /\ [][Next]_vars

----------------------------------------------------------------------------
(* The end-to-end scenario: `analyze' and then `train' on the full         *)
(* dataset for one project; `earlier' collects the lines of the analyze    *)
(* invocation and `faults' is kept over both.                              *)

ScenarioInvoke ==
    /\ pc = "done"
    /\ faults' = faults
    /\ earlier' = earlier \o stdout
    /\ \/ /\ argv = <<>>
          /\ \E p \in Projects : Main(<<"analyze", FullPath, p>>)
       \/ /\ argv # <<>>
          /\ argv[1] = "analyze"
          /\ Main(<<"train", FullPath, argv[3]>>)

NextEndToEnd == ScenarioInvoke \/ Steps

SpecEndToEnd == Init /\ [][NextEndToEnd]_vars

----------------------------------------------------------------------------
(* Uploads by shape.  One upload, drawn from every ordering of up to       *)
(* MaxCols of the column names the code looks for, each column with its    *)
(* fixed two values, and from the tables of up to MaxRecords rows and      *)
(* MaxFeatures columns with every number of missing cells; the stages run  *)
(* on it for one project, train_models as far as the encoded features.     *)

MaxCols == 3

MaxRecords == 5

MaxFeatures == 4

SamplePath == <<"uploads/sample", ".csv">>

ColumnNames ==
    {"Class", "target", "debt_payments", "income", "payment_delay_1",
     "avg_payment_delays", "debt_to_income_ratio", "grade", "branch"}

\* The two fields of each column.
ColumnValues(name) ==
    CASE name = "Class" -> <<Num(1), Num(0)>>
      [] name = "target" -> <<Num(0), Num(0)>>
      [] name = "debt_payments" -> <<Num(3), Num(0)>>
      [] name = "income" -> <<Num(6), Num(0)>>
      [] name = "payment_delay_1" -> <<Num(1), Str("")>>
      [] name = "avg_payment_delays" -> <<Num(5), Num(2)>>
      [] name = "debt_to_income_ratio" -> <<Num(7), Num(7)>>
      [] name = "branch" -> <<Str("bad"), Str("good")>>
      [] OTHER -> <<Str("B"), Str("A")>>

Headers ==
    {h \in UNION {[1 .. n -> ColumnNames] : n \in 1 .. MaxCols} :
        \A i, j \in DOMAIN h : h[i] = h[j] => i = j}

HeaderFile(header) ==
    CsvFile(header,
            [i \in 1 .. 2 |-> [j \in 1 .. Len(header) |-> ColumnValues(header[j])[i]]])

QualityNames == <<"age", "balance", "tenure", "region", "salary", "term">>

\* A table whose first `missing' fields, row by row, are empty.
QualityFile(records, features, missing) ==
    CsvFile(SubSeq(QualityNames, 1, features),
            [i \in 1 .. records |->
                [j \in 1 .. features |->
                    IF (i - 1) * features + j <= missing THEN Str("") ELSE Num(1)]])

SampleFiles ==
    {HeaderFile(h) : h \in Headers}
        \cup {QualityFile(r, c, m) : r \in 1 .. MaxRecords, c \in 1 .. MaxFeatures,
                                     m \in 0 .. MaxRecords * MaxFeatures}
        \cup {FullFile, LabelsFile}

InitSamples ==
    /\ \E file \in SampleFiles :
          /\ fs = [p \in {SamplePath} |-> file]
          /\ fs0 = fs
    /\ stdout = <<>>
    /\ pc = "done"
    /\ argv = <<>>
    /\ an = NoAnalyze
    /\ ret = NoReturn
    /\ tr = NoTrain
    /\ reads = {}
    /\ calls = 0
    /\ faults = FALSE
    /\ raised = FALSE
    /\ earlier = <<>>
    /\ NoDatabase

InvokeSamples ==
    \E command \in {"analyze", "train"} :
        /\ Main(<<command, SamplePath, "p1">>)
        /\ faults' = FALSE
        /\ earlier' = <<>>

NextSamples ==
    \/ InvokeSamples
    \/ AnalyzeLoad
    \/ AnalyzeDebtToIncome
    \/ AnalyzeCreditUtilization
    \/ AnalyzePaymentDelays
    \/ AnalyzeTarget
    \/ AnalyzePersist
    \/ AnalyzeSummary
    \/ AnalyzeExcept
    \/ TrainLoad
    \/ TrainAfterAnalyze
    \/ TrainTarget
    \/ TrainPrepare

SpecSamples == InitSamples /\ [][NextSamples]_vars

----------------------------------------------------------------------------
(* DatabaseManager: the conversions.  They are given by what they do to    *)
(* the values: the JSON records of a frame have no columns when the frame  *)
(* has no rows, and a missing value is null.                               *)

Null == [k |-> "null", n |-> 0, d |-> 1, s |-> ""]

\* data.to_json(orient='records'), line 115: one object for each row, a
\* key for each column; the index is not written.
to_json(data) ==
    [i \in 1 .. data.nrows |->
        [j \in 1 .. Len(data.columns) |->
            [key |-> data.columns[j],
             value |-> IF data.data[data.columns[j]][i].k = "nan" THEN Null
                       ELSE data.data[data.columns[j]][i]]]]

\* pd.read_json(text, orient='records'), line 142: the columns are the keys
\* of the objects, so that the text [] gives a frame without columns.
read_json(records) ==
    IF records = <<>> THEN NoFrame
    ELSE LET keys == [j \in 1 .. Len(records[1]) |-> records[1][j].key]
         IN  Frame(keys, Len(records),
                   [c \in Range(keys) |->
                       [i \in 1 .. Len(records) |->
                           LET value == records[i][IndexOf(keys, c)].value
                           IN  IF value = Null THEN NaN ELSE value]])

\* base64.b64encode(pickle.dumps(obj)).decode('utf-8'), lines 195-196, and
\* pickle.loads(base64.b64decode(text.encode('utf-8'))), lines 229-230.
pickle_b64(obj) == <<"b64", "pickle", obj>>

unpickle_b64(text) == text[3]

\* json.dumps of a dict or list of strings: the type and the items.
json_dumps(value) == [py |-> "str", items |-> <<value.py>> \o value.items]

json_loads(text) == [py |-> text.items[1], items |-> Tail(text.items)]

\* `json.dumps(x) if x else None', lines 208-209, and
\* `json.loads(x) if x else None', lines 243-244.
DumpsIfAny(value) == IF Truthy(value) THEN json_dumps(value) ELSE PyNone

LoadsIfAny(text) == IF Truthy(text) THEN json_loads(text) ELSE PyNone

----------------------------------------------------------------------------
(* DatabaseManager: what the operations are called with.                   *)

MaxInserts == 2

\* A dataset with a missing value, and one with columns and no rows.
RowsFrame ==
    Frame(<<"income", "default">>, 2,
          [c \in {"income", "default"} |->
              IF c = "income" THEN <<Num(5), NaN>> ELSE <<Num(0), Num(1)>>])

NoRowsFrame == Frame(<<"income", "default">>, 0, [c \in {"income", "default"} |-> <<>>])

DatasetArgs ==
    {[data |-> d, name |-> "loans", description |-> ""] : d \in {RowsFrame, NoRowsFrame}}

\* Metrics without the key f1_score; hyperparameters and feature names
\* that are given, and that are empty.
ModelArgs ==
    {[model |-> "LogisticRegression", model_name |-> "scorer",
      algorithm |-> "logistic_regression", metrics |-> <<1, 1, 1, 1, NoMetric>>,
      hyperparameters |-> h[1], feature_names |-> h[2], dataset_id |-> 0] :
        h \in {<<PyDict(<<"C=1">>), PyList(<<"income">>)>>, <<PyDict(<<>>), PyList(<<>>)>>}}

PipelineArgs ==
    {[pipeline |-> "StandardScaler", pipeline_name |-> "scaling",
      processing_steps |-> PyList(<<"scale">>), dataset_id |-> 0]}

PredictionArgs ==
    {[model_id |-> 1, input_features |-> PyDict(<<"income=5">>), prediction |-> 1,
      probability |-> 1, risk_category |-> "high"]}

Ids == 1 .. MaxInserts

\* cleanup_old_data(days_old): the rows are younger than 30 days and older
\* than no time at all.
DaysOld == {0, 30}

----------------------------------------------------------------------------
(* DatabaseManager: the operations.  Each is one action: the session calls *)
(* it makes, in order, what it returns or that it raises, and the tables   *)
(* after it.  `fault' is the library call the environment makes raise.     *)

Inserts ==
    sequences.datasets + sequences.models + sequences.processing_pipelines
        + sequences.prediction_logs

Max(S) == IF S = {} THEN 0 ELSE CHOOSE x \in S : \A y \in S : y <= x

\* The identifier the database gives the next row of a table: one more than
\* the largest in the table, or the next value of the table's sequence.
NewId(t) ==
    IF dialect = "rowid" THEN Max(DOMAIN tables[t]) + 1 ELSE sequences[t] + 1

Insert(table, id, row) ==
    [x \in DOMAIN table \cup {id} |-> IF x = id THEN row ELSE table[x]]

Remove(table, gone) == [x \in DOMAIN table \ gone |-> table[x]]

Opened(session) == Cardinality({i \in 1 .. Len(session) : session[i] = "open"})

Closed(session) == Cardinality({i \in 1 .. Len(session) : session[i] = "close"})

IdResult(id) == [NoResult EXCEPT !.kind = "id", !.id = id]

BoolResult(flag) == [NoResult EXCEPT !.kind = "bool", !.flag = flag]

NoneResult == [NoResult EXCEPT !.kind = "none"]

\* The operation is over: what it did, and the sessions and tables it leaves.
Finish(name, args, fault, result, session, table, new_table, numbered) ==
    /\ op' = [name |-> name, args |-> args, fault |-> fault,
              raised |-> (fault # ""), result |-> result, session |-> session]
    /\ tables0' = tables
    /\ tables' = [tables EXCEPT ![table] = new_table]
    /\ sequences' = [sequences EXCEPT ![table] = @ + (IF numbered THEN 1 ELSE 0)]
    /\ open_sessions' = open_sessions + Opened(session) - Closed(session)
    /\ UNCHANGED <<dialect, program>>

\* The shape of lines 110-134, 190-220, 297-317, 346-369: serialize, add,
\* commit, read the identifier of the new row, close.  The read follows
\* the commit, after which the row is expired and is loaded again.
SaveRecord(name, table, args, row) ==
    /\ Inserts < MaxInserts
    /\ \E fault \in {"", "serialize", "commit", "refresh"}, numbered \in BOOLEAN :
        /\ fault # "commit" => numbered = (fault # "serialize")
        /\ LET id == NewId(table)
               stored == Insert(tables[table], id, row)
           IN  CASE fault = "" ->
                        Finish(name, args, fault, IdResult(id),
                               <<"open", "add", "commit", "refresh", "close">>,
                               table, stored, numbered)
                 [] fault = "serialize" ->
                        Finish(name, args, fault, NoResult,
                               <<"open", "rollback", "close">>,
                               table, tables[table], numbered)
                 [] fault = "commit" ->
                        Finish(name, args, fault, NoResult,
                               <<"open", "add", "commit", "rollback", "close">>,
                               table, tables[table], numbered)
                 [] OTHER ->
                        Finish(name, args, fault, NoResult,
                               <<"open", "add", "commit", "refresh", "rollback", "close">>,
                               table, stored, numbered)

\* Lines 141-144.
LoadedDataset(row) ==
    [NoResult EXCEPT !.kind = "dataset", !.data = read_json(row.data_json),
                     !.name = row.name, !.description = row.description]

\* Lines 227-248.
LoadedModel(row) ==
    [NoResult EXCEPT !.kind = "model", !.model = unpickle_b64(row.model_data),
                     !.metadata = [model_name |-> row.model_name,
                                   algorithm |-> row.algorithm,
                                   metrics |-> row.metrics,
                                   hyperparameters |-> LoadsIfAny(row.hyperparameters),
                                   feature_names |-> LoadsIfAny(row.feature_names)]]

\* Lines 376-388.
LoadedPipeline(row) ==
    [NoResult EXCEPT !.kind = "pipeline", !.model = unpickle_b64(row.pipeline_data),
                     !.metadata = [pipeline_name |-> row.pipeline_name,
                                   processing_steps |-> json_loads(row.processing_steps)]]

\* What load returns for the row it has found in a table.
Loaded(table, row) ==
    CASE table = "datasets" -> LoadedDataset(row)
      [] table = "models" -> LoadedModel(row)
      [] OTHER -> LoadedPipeline(row)

\* The shape of lines 136-149, 222-253, 371-393: query the row, and when
\* there is one deserialize it; close on each of the three paths.
LoadRecord(name, table, id) ==
    \E fault \in {"", "query", "deserialize"} :
        /\ fault = "deserialize" => id \in DOMAIN tables[table]
        /\ Finish(name, [id |-> id], fault,
                  IF fault # "" THEN NoResult
                  ELSE IF id \in DOMAIN tables[table] THEN Loaded(table, tables[table][id])
                  ELSE NoneResult,
                  <<"open", "query", "close">>,
                  table, tables[table], FALSE)

\* DeleteRecord answering True whether or not there is a row.
DeleteRecord_AlwaysTrue(name, table, id) ==
    \E fault \in {"", "query", "commit"} :
        LET found == id \in DOMAIN tables[table]
        IN  /\ fault = "commit" => found
            /\ CASE fault = "" /\ found ->
                        Finish(name, [id |-> id], fault, BoolResult(TRUE),
                               <<"open", "query", "delete", "commit", "close">>,
                               table, Remove(tables[table], {id}), FALSE)
                 [] fault = "" /\ ~found ->
                        Finish(name, [id |-> id], fault, BoolResult(TRUE),
                               <<"open", "query", "close">>,
                               table, tables[table], FALSE)
                 [] fault = "query" ->
                        Finish(name, [id |-> id], fault, NoResult,
                               <<"open", "query", "rollback", "close">>,
                               table, tables[table], FALSE)
                 [] OTHER ->
                        Finish(name, [id |-> id], fault, NoResult,
                               <<"open", "query", "delete", "commit", "rollback", "close">>,
                               table, tables[table], FALSE)

\* The shape of lines 172-187 and 279-294: query the row; delete, commit
\* and True when there is one, otherwise False.
DeleteRecord(name, table, id) ==
    \E fault \in {"", "query", "commit"} :
        LET found == id \in DOMAIN tables[table]
        IN  /\ fault = "commit" => found
            /\ CASE fault = "" /\ found ->
                        Finish(name, [id |-> id], fault, BoolResult(TRUE),
                               <<"open", "query", "delete", "commit", "close">>,
                               table, Remove(tables[table], {id}), FALSE)
                 [] fault = "" /\ ~found ->
                        Finish(name, [id |-> id], fault, BoolResult(FALSE),
                               <<"open", "query", "close">>,
                               table, tables[table], FALSE)
                 [] fault = "query" ->
                        Finish(name, [id |-> id], fault, NoResult,
                               <<"open", "query", "rollback", "close">>,
                               table, tables[table], FALSE)
                 [] OTHER ->
                        Finish(name, [id |-> id], fault, NoResult,
                               <<"open", "query", "delete", "commit", "rollback", "close">>,
                               table, tables[table], FALSE)

\* ListRecords without the close of the except block.
ListRecords_NoCloseOnError(name, table) ==
    \E fault \in {"", "query"} :
        Finish(name, [id |-> 0], fault,
               IF fault # "" THEN NoResult
               ELSE [NoResult EXCEPT !.kind = "list",
                                     !.id = Cardinality(DOMAIN tables[table])],
               IF fault # "" THEN <<"open", "query">> ELSE <<"open", "query", "close">>,
               table, tables[table], FALSE)

\* The shape of lines 151-170, 255-277, 319-343: query the rows, close.
ListRecords(name, table) ==
    \E fault \in {"", "query"} :
        Finish(name, [id |-> 0], fault,
               IF fault # "" THEN NoResult
               ELSE [NoResult EXCEPT !.kind = "list",
                                     !.id = Cardinality(DOMAIN tables[table])],
               <<"open", "query", "close">>,
               table, tables[table], FALSE)

\* Lines 110-134.  `saved' is history: what the row was saved from.
save_dataset ==
    \E args \in DatasetArgs :
        SaveRecord("save_dataset", "datasets", args,
                   [name |-> args.name, description |-> args.description,
                    num_rows |-> args.data.nrows,
                    num_columns |-> Len(args.data.columns),
                    data_json |-> to_json(args.data), saved |-> args])

\* Lines 136-149.
load_dataset ==
    \E id \in Ids : LoadRecord("load_dataset", "datasets", id)

\* Lines 151-170.
list_datasets == ListRecords("list_datasets", "datasets")

\* Lines 172-187.
delete_dataset == \E id \in Ids : DeleteRecord("delete_dataset", "datasets", id)

\* Lines 190-220.
save_model ==
    \E args \in ModelArgs :
        SaveRecord("save_model", "models", args,
                   [model_name |-> args.model_name, algorithm |-> args.algorithm,
                    dataset_id |-> args.dataset_id, metrics |-> args.metrics,
                    model_data |-> pickle_b64(args.model),
                    hyperparameters |-> DumpsIfAny(args.hyperparameters),
                    feature_names |-> DumpsIfAny(args.feature_names),
                    saved |-> args])

\* Lines 222-253.
load_model == \E id \in Ids : LoadRecord("load_model", "models", id)

\* Lines 255-277.
list_models == ListRecords("list_models", "models")

\* Lines 279-294.
delete_model == \E id \in Ids : DeleteRecord("delete_model", "models", id)

\* Lines 297-317.
log_prediction ==
    \E args \in PredictionArgs :
        SaveRecord("log_prediction", "prediction_logs", args,
                   [model_id |-> args.model_id,
                    input_features |-> json_dumps(args.input_features),
                    prediction |-> args.prediction, probability |-> args.probability,
                    risk_category |-> args.risk_category, saved |-> args])

\* Lines 319-343.
get_prediction_history == ListRecords("get_prediction_history", "prediction_logs")

\* Lines 346-369.
save_processing_pipeline ==
    \E args \in PipelineArgs :
        SaveRecord("save_processing_pipeline", "processing_pipelines", args,
                   [pipeline_name |-> args.pipeline_name, dataset_id |-> args.dataset_id,
                    processing_steps |-> json_dumps(args.processing_steps),
                    pipeline_data |-> pickle_b64(args.pipeline), saved |-> args])

\* Lines 371-393.
load_processing_pipeline ==
    \E id \in Ids :
        LoadRecord("load_processing_pipeline", "processing_pipelines", id)

\* Lines 395-407: delete the prediction logs older than the cutoff, commit.
cleanup_old_data ==
    \E days_old \in DaysOld, fault \in {"", "delete", "commit"} :
        LET old == IF days_old = 0 THEN DOMAIN tables.prediction_logs ELSE {}
        IN  CASE fault = "" ->
                    Finish("cleanup_old_data", [id |-> days_old], fault,
                           [NoResult EXCEPT !.kind = "count", !.id = Cardinality(old)],
                           <<"open", "delete", "commit", "close">>,
                           "prediction_logs", Remove(tables.prediction_logs, old), FALSE)
              [] fault = "delete" ->
                    Finish("cleanup_old_data", [id |-> days_old], fault, NoResult,
                           <<"open", "delete", "rollback", "close">>,
                           "prediction_logs", tables.prediction_logs, FALSE)
              [] OTHER ->
                    Finish("cleanup_old_data", [id |-> days_old], fault, NoResult,
                           <<"open", "delete", "commit", "rollback", "close">>,
                           "prediction_logs", tables.prediction_logs, FALSE)

\* Lines 74-86: the manager is constructed on a database whose tables are
\* there and empty; the dialect is that of DATABASE_URL.
InitDatabase ==
    /\ fs = Uploads
    /\ stdout = <<>>
    /\ pc = "done"
    /\ argv = <<>>
    /\ an = NoAnalyze
    /\ ret = NoReturn
    /\ tr = NoTrain
    /\ fs0 = Uploads
    /\ reads = {}
    /\ calls = 0
    /\ faults = FALSE
    /\ raised = FALSE
    /\ earlier = <<>>
    /\ tables = EmptyTables
    /\ sequences = NoSequences
    /\ dialect \in {"rowid", "sequence"}
    /\ open_sessions = 0
    /\ op = NoOp
    /\ tables0 = EmptyTables

NextDatabase ==
    \/ save_dataset
    \/ load_dataset
    \/ list_datasets
    \/ delete_dataset
    \/ save_model
    \/ load_model
    \/ list_models
    \/ delete_model
    \/ log_prediction
    \/ get_prediction_history
    \/ save_processing_pipeline
    \/ load_processing_pipeline
    \/ cleanup_old_data

SpecDatabase == InitDatabase /\ [][NextDatabase]_vars

TypeOK ==
    /\ pc \in {"done", "an_load", "an_debt", "an_credit", "an_delays",
               "an_target", "an_persist", "an_summary", "an_except",
               "tr_load", "tr_after_analyze", "tr_target", "tr_prepare",
               "tr_training", "tr_fit", "tr_metrics", "tr_save",
               "tr_completed", "tr_roc", "tr_best", "tr_except"}
    /\ tr.i \in 0 .. Len(model_names) + 1
    /\ tr.best_score \in 0 .. AucScale
    /\ calls \in 0 .. 1

----------------------------------------------------------------------------
(* Vocabulary of the properties                                            *)

TrainEvents == {"model_update", "roc_data", "best_model"}

EngineerEvents == {"feature_engineering", "dataset_summary"}

\* The invocation runs, or has run, the command with its three arguments.
Running(command) == Len(argv) = 3 /\ argv[1] = command

\* The fixed order of the events of a train run.
TrainSequence ==
    << <<"model_update", "logistic_regression", "training">>,
       <<"model_update", "logistic_regression", "completed">>,
       <<"model_update", "decision_tree", "training">>,
       <<"model_update", "decision_tree", "completed">>,
       <<"model_update", "random_forest", "training">>,
       <<"model_update", "random_forest", "completed">>,
       <<"roc_data", "", "">>,
       <<"best_model", "", "">> >>

\* Kind with the candidate of a best_model event left out.
Shape(ev) == IF ev.type = "best_model" THEN <<"best_model", "", "">> ELSE Kind(ev)

Shapes(evs) == [i \in 1 .. Len(evs) |-> Shape(evs[i])]

\* The "completed" events of the invocation.
CompletedEvents ==
    LET Keep(ev) == ev.type = "model_update" /\ ev.status = "completed"
    IN  SelectSeq(stdout, Keep)

BestModelEvents == OfType(stdout, {"best_model"})

----------------------------------------------------------------------------
(* C1: analyze and then train on the dataset with the columns              *)
(* debt_payments, income, credit_used, credit_limit, payment_delay_1,      *)
(* payment_delay_2, default, with no library call failing on the way,      *)
(* print exactly: three feature_engineering events, the dataset_summary    *)
(* with target_column "default", then training/completed for each of the   *)
(* three candidates, one roc_data with three keys and one best_model.      *)

EndToEndSequence ==
    << <<"feature_engineering", "debt_to_income_ratio", "completed">>,
       <<"feature_engineering", "credit_utilization_rate", "completed">>,
       <<"feature_engineering", "avg_payment_delays", "completed">>,
       <<"dataset_summary", "", "">> >> \o TrainSequence

C1_EndToEnd ==
    (pc = "done" /\ Running("train") /\ ~faults) =>
        LET lines == earlier \o stdout
        IN  /\ Shapes(lines) = EndToEndSequence
            /\ lines[4].target_column = "default"
            /\ Cardinality(lines[11].keys) = 3

----------------------------------------------------------------------------
(* C2: at every point of every invocation the model_update, roc_data and   *)
(* best_model events printed so far are a prefix of the fixed sequence     *)
(* training, completed per candidate in the fixed order, roc_data,         *)
(* best_model.                                                             *)

C2_TrainOrder == IsPrefix(Shapes(OfType(stdout, TrainEvents)), TrainSequence)

\* A train run that printed the whole sequence.
C2_Witness ==
    pc = "done" /\ Running("train")
        /\ Shapes(OfType(stdout, TrainEvents)) = TrainSequence

----------------------------------------------------------------------------
(* C3: the candidate a best_model event names has a ROC-AUC at least that  *)
(* of every candidate of the run, and among the candidates with the        *)
(* maximal ROC-AUC it is the earliest in the fixed order.                  *)

\* The candidate of the j-th completed event is the maximal one that the
\* fixed order puts first.
EarliestMaximal(j) ==
    /\ \A k \in 1 .. Len(CompletedEvents) :
            CompletedEvents[k].rocAuc <= CompletedEvents[j].rocAuc
    /\ \A k \in 1 .. j - 1 :
            CompletedEvents[k].rocAuc < CompletedEvents[j].rocAuc

C3_BestIsEarliestMaximal ==
    \A b \in 1 .. Len(BestModelEvents) :
        \E j \in 1 .. Len(CompletedEvents) :
            /\ CompletedEvents[j].name = BestModelEvents[b].name
            /\ EarliestMaximal(j)

----------------------------------------------------------------------------
(* C4: a best_model event names one of the three candidates and its score  *)
(* is the rocAuc of that candidate's completed event.                      *)

C4_BestIsNamedAndScored ==
    \A b \in 1 .. Len(BestModelEvents) :
        /\ Contains(model_names, BestModelEvents[b].name)
        /\ \E j \in 1 .. Len(CompletedEvents) :
            /\ CompletedEvents[j].name = BestModelEvents[b].name
            /\ CompletedEvents[j].rocAuc = BestModelEvents[b].score

----------------------------------------------------------------------------
(* C5: a train run on a dataset none of whose columns is a candidate       *)
(* target name ends with exactly one error event and no model_update       *)
(* event, whether the processed file was there or the trainer ran the      *)
(* engineering first.                                                      *)

\* The header of the dataset the train invocation works on: the processed
\* file it found, else the upload it has engineered.
TrainHeader ==
    LET processed_file == ProcessedFile(argv[3])
    IN  IF processed_file \in DOMAIN fs0 THEN fs0[processed_file].header
        ELSE IF argv[2] \in DOMAIN fs0 THEN fs0[argv[2]].header
        ELSE <<>>

C5_NoTargetOneError ==
    (pc = "done" /\ Running("train") /\ FirstTarget(TrainHeader) = "") =>
        /\ Count(stdout, {"error"}) = 1
        /\ Count(stdout, {"model_update"}) = 0

\* The train run found a processed file without target column.
C5_Witness ==
    /\ pc = "done"
    /\ Running("train")
    /\ ProcessedFile(argv[3]) \in DOMAIN fs0
    /\ Readable(fs0[ProcessedFile(argv[3])])
    /\ FirstTarget(TrainHeader) = ""
    /\ Count(stdout, {"error"}) = 1

----------------------------------------------------------------------------
(* C6: a train run in which a step raises prints exactly one error event,  *)
(* as its last line, and lets no exception out; nothing is printed after   *)
(* an error event, and the lines printed before stay as they are.          *)

\* A step of the train invocation has raised.
TrainFailed == tr.e # "" \/ (calls = 1 /\ an.e # "")

C6_ErrorIsLast ==
    Running("train") =>
        /\ \A k \in 1 .. Len(stdout) : stdout[k].type = "error" => k = Len(stdout)
        /\ (pc = "done" /\ TrainFailed) =>
              /\ Count(stdout, {"error"}) = 1
              /\ stdout[Len(stdout)].type = "error"
              /\ ~raised

C6_TrainFailure ==
    /\ []C6_ErrorIsLast
    /\ [][pc # "done" => IsPrefix(stdout, stdout')]_vars

\* The fit of the second candidate raised; the lines of the first stay.
C6_Witness ==
    /\ pc = "done"
    /\ Running("train")
    /\ tr.e = "cannot fit model"
    /\ tr.i = 2
    /\ Count(stdout, {"model_update"}) = 3
    /\ stdout[Len(stdout)].type = "error"

----------------------------------------------------------------------------
(* C7: an analyze_data call in which a step raises prints exactly one      *)
(* error event, returns (None, None) and lets no exception out.            *)

\* analyze_data has returned to main or to train_models.
AnalyzeReturned == (pc = "done" /\ Running("analyze")) \/ pc = "tr_after_analyze"

C7_AnalyzeFailure ==
    (calls = 1 /\ an.e # "" /\ pc \notin {"an_except"}) =>
        /\ Count(stdout, {"error"}) = 1
        /\ ret.none
        /\ ~raised
        /\ AnalyzeReturned \/ (Running("train") /\ pc = "done")

\* The summary event could not be encoded, after the file was written.
C7_Witness ==
    /\ AnalyzeReturned
    /\ an.e = "Object of type int64 is not JSON serializable"
    /\ Count(stdout, {"error"}) = 1
    /\ ret.none

----------------------------------------------------------------------------
(* C8: a train run that finds no processed file and gets no data from      *)
(* analyze_data ends with exactly one error event and without any          *)
(* model_update, roc_data or best_model event.                             *)

C8_NoDataNoTraining ==
    (pc = "done" /\ Running("train") /\ calls = 1 /\ ret.none) =>
        /\ Count(stdout, {"error"}) = 1
        /\ Count(stdout, TrainEvents) = 0

\* The upload could not be engineered: its format is not supported.
C8_Witness ==
    /\ pc = "done"
    /\ Running("train")
    /\ calls = 1
    /\ ret.none
    /\ an.e = "Unsupported file format"
    /\ Count(stdout, {"error"}) = 1

----------------------------------------------------------------------------
(* C9: a train run that finds the processed file prints no                 *)
(* feature_engineering and no dataset_summary event, never reads           *)
(* file_path and leaves the processed file as it was; one that does not    *)
(* find it enters analyze_data exactly once, and no model_update, roc_data *)
(* or best_model event is printed before analyze_data has returned.        *)

AnalyzePcs ==
    {"an_load", "an_debt", "an_credit", "an_delays", "an_target", "an_persist",
     "an_summary", "an_except"}

C9_EngineersOnlyWhenAbsent ==
    Running("train") =>
        LET processed_file == ProcessedFile(argv[3])
        IN  IF processed_file \in DOMAIN fs0
            THEN /\ Count(stdout, EngineerEvents) = 0
                 /\ calls = 0
                 /\ argv[2] \notin reads
                 /\ processed_file \in DOMAIN fs
                 /\ fs[processed_file] = fs0[processed_file]
            ELSE /\ calls = (IF pc = "tr_load" THEN 0 ELSE 1)
                 /\ pc \in AnalyzePcs \cup {"tr_after_analyze"} =>
                        Count(stdout, TrainEvents) = 0
                 /\ \A j, k \in 1 .. Len(stdout) :
                        (j < k /\ stdout[j].type \in TrainEvents) =>
                            stdout[k].type \notin EngineerEvents

\* The train run found the processed file and trained all candidates.
C9_Witness ==
    /\ pc = "done"
    /\ Running("train")
    /\ ProcessedFile(argv[3]) \in DOMAIN fs0
    /\ Count(stdout, {"best_model"}) = 1
    /\ ProcessedFile(argv[3]) \in reads

----------------------------------------------------------------------------
(* C10: as claimed, an analyze invocation for a project that already has a *)
(* processed file, with no library call failing on the way, leaves in the  *)
(* file its own processed dataset and nothing of the earlier run.          *)

C10_EarlierNeverSurvives ==
    (pc = "done" /\ Running("analyze") /\ ~faults
        /\ ProcessedFile(argv[3]) \in DOMAIN fs0) =>
        fs[ProcessedFile(argv[3])] = ToCsv(an.df_processed)

(* C10, amended: the write of line 98, when it completes, leaves the       *)
(* processed dataset of the running invocation in the file of its project, *)
(* and no other step changes the processed file of any project, but for a  *)
(* write of line 98 that is interrupted; so an invocation that raises      *)
(* before line 98 leaves the earlier content in place.                     *)

NoFile == [kind |-> "absent", header |-> <<>>, lines |-> <<>>, model |-> ""]

FileAt(files, path) == IF path \in DOMAIN files THEN files[path] ELSE NoFile

C10_WrittenByPersistOnly ==
    [][\A p \in Projects :
          /\ (pc = "an_persist" /\ pc' = "an_summary" /\ an.project_id = p) =>
                FileAt(fs', ProcessedFile(p)) = ToCsv(an.df_processed)
          /\ FileAt(fs', ProcessedFile(p)) # FileAt(fs, ProcessedFile(p)) =>
                /\ pc = "an_persist"
                /\ an.project_id = p
                /\ FileAt(fs', ProcessedFile(p)) \in {ToCsv(an.df_processed), EmptyFile}
      ]_vars

\* A later invocation has replaced the processed dataset of an earlier one
\* by a different one.
C10_Witness ==
    /\ pc = "an_summary"
    /\ ProcessedFile(an.project_id) \in DOMAIN fs0
    /\ Readable(fs0[ProcessedFile(an.project_id)])
    /\ fs[ProcessedFile(an.project_id)] = ToCsv(an.df_processed)
    /\ fs[ProcessedFile(an.project_id)] # fs0[ProcessedFile(an.project_id)]

----------------------------------------------------------------------------
(* C11: every event that analyze_data or train_models emits has one of the *)
(* six types, and every event a stage is about to emit can be rendered by  *)
(* json.dumps, the dataset_summary event of lines 101-117 included, so     *)
(* that no emission raises.                                                *)

EventTypes ==
    {"feature_engineering", "dataset_summary", "model_update", "roc_data",
     "best_model", "error"}

C11_EventsSerializable ==
    /\ (Running("analyze") \/ Running("train")) =>
          \A k \in 1 .. Len(stdout) :
              stdout[k].type \in EventTypes /\ JsonSerializable(stdout[k])
    /\ pc = "an_summary" =>
          JsonSerializable(SummaryEvent(an.total_records, an.features,
                                        an.missing_values, an.default_rate,
                                        an.data_quality, an.df.columns,
                                        an.target_col))

----------------------------------------------------------------------------
(* C12: the target column is the first column, in the order of the         *)
(* dataset's columns, whose lower-cased name is one of default, target,    *)
(* bad_loan, delinquent, class, whatever the order of these in the list,   *)
(* and none when no column matches; analyze_data and train_models follow   *)
(* the same rule, each on the columns of the dataset it has loaded.        *)

TargetNames == {"default", "target", "bad_loan", "delinquent", "class"}

IsTargetName(col) == Lower(col) \in TargetNames

IsFirstMatch(cols, target_col) ==
    IF \E i \in 1 .. Len(cols) : IsTargetName(cols[i])
    THEN \E i \in 1 .. Len(cols) :
            /\ cols[i] = target_col
            /\ IsTargetName(cols[i])
            /\ \A j \in 1 .. i - 1 : ~IsTargetName(cols[j])
    ELSE target_col = ""

NoTargetLine == ErrorEvent("No target column found for training")

C12_FirstMatchInColumnOrder ==
    /\ pc \in {"an_persist", "an_summary"} => IsFirstMatch(an.df.columns, an.target_col)
    /\ pc = "tr_prepare" =>
          tr.target_col # "" /\ IsFirstMatch(tr.df.columns, tr.target_col)
    /\ (Running("train") /\ pc = "done" /\ stdout # <<>>
           /\ stdout[Len(stdout)] = NoTargetLine) =>
          IsFirstMatch(tr.df.columns, "")

\* train_models has taken "Class", which comes before "target" in the
\* dataset and after it in the list of candidates.
C12_Witness ==
    /\ pc = "tr_prepare"
    /\ tr.target_col = "Class"
    /\ \E i, j \in 1 .. Len(tr.df.columns) :
          i < j /\ tr.df.columns[i] = "Class" /\ tr.df.columns[j] = "target"

----------------------------------------------------------------------------
(* C13: for every dataset with at least one cell the quality label is      *)
(* Excellent exactly when the percentage of non-missing cells is above 95, *)
(* Good exactly when it is above 85 and at most 95, Fair exactly when it   *)
(* is above 70 and at most 85, and Poor otherwise; a dataset with exactly  *)
(* 95, 85 or 70 percent of its cells present is Good, Fair or Poor.        *)

\* The cells of the loaded file and those of them that read as missing.
CellsOf(file) == Len(file.lines) * Len(file.header)

MissingOf(file) ==
    Cardinality({ij \in (1 .. Len(file.lines)) \X (1 .. Len(file.header)) :
                    Parse(file.lines[ij[1]][ij[2]]) = NaN})

\* completeness > t and completeness = t, in whole numbers.
Above(file, t) == (CellsOf(file) - MissingOf(file)) * 100 > t * CellsOf(file)

Exactly(file, t) == (CellsOf(file) - MissingOf(file)) * 100 = t * CellsOf(file)

C13_QualityThresholds ==
    (pc \in {"an_persist", "an_summary"} /\ CellsOf(fs0[an.file_path]) >= 1) =>
        LET file == fs0[an.file_path]
        IN  /\ an.data_quality = "Excellent" <=> Above(file, 95)
            /\ an.data_quality = "Good" <=> (Above(file, 85) /\ ~Above(file, 95))
            /\ an.data_quality = "Fair" <=> (Above(file, 70) /\ ~Above(file, 85))
            /\ an.data_quality = "Poor" <=> ~Above(file, 70)
            /\ Exactly(file, 95) => an.data_quality = "Good"
            /\ Exactly(file, 85) => an.data_quality = "Fair"
            /\ Exactly(file, 70) => an.data_quality = "Poor"

\* A dataset with exactly 95 percent of its cells present has been labelled.
C13_Witness ==
    /\ pc = "an_persist"
    /\ Exactly(fs0[an.file_path], 95)
    /\ an.data_quality = "Good"

----------------------------------------------------------------------------
(* C14: as claimed, an input without both debt_payments and income gives a *)
(* processed dataset with no debt_to_income_ratio column and no event for  *)
(* it, and for each of the three derived features the feature_engineering  *)
(* event is emitted if and only if the prerequisite columns of the feature *)
(* are in the raw input, in the fixed order and before anything else.      *)

\* The columns of the upload the running analyze_data was given.
RawColumns == Range(fs0[an.file_path].header)

HasPair(a, b) == {a, b} \subseteq RawColumns

HasDelays == \E c \in RawColumns : HasPaymentDelay(c)

\* The events of the derivations whose prerequisites the raw input has.
ExpectedFeatures ==
    (IF HasPair("debt_payments", "income")
     THEN <<FeatureEvent("debt_to_income_ratio")>> ELSE <<>>)
    \o (IF HasPair("credit_used", "credit_limit")
        THEN <<FeatureEvent("credit_utilization_rate")>> ELSE <<>>)
    \o (IF HasDelays THEN <<FeatureEvent("avg_payment_delays")>> ELSE <<>>)

\* analyze_data is past the derivations of lines 41-70.
Derived == pc \in {"an_target", "an_persist", "an_summary"}

C14_NoPairNoColumn ==
    Derived =>
        /\ stdout = ExpectedFeatures
        /\ ~HasPair("debt_payments", "income") =>
              ~Contains(an.df_processed.columns, "debt_to_income_ratio")

(* C14, amended: an input without both debt_payments and income gets no    *)
(* debt_to_income_ratio column added, so that the processed dataset has    *)
(* one only when the raw input has a column of that name, kept as it is,   *)
(* and no event for it is emitted; a run that gets past the derivations    *)
(* has emitted, for each of the three derived features, the                *)
(* feature_engineering event if and only if the prerequisite columns are   *)
(* in the raw input, in the fixed order and before anything else.          *)

C14_EventsIffPrerequisites ==
    Derived =>
        /\ stdout = ExpectedFeatures
        /\ ~HasPair("debt_payments", "income") =>
              /\ Contains(an.df_processed.columns, "debt_to_income_ratio")
                    <=> "debt_to_income_ratio" \in RawColumns
              /\ "debt_to_income_ratio" \in RawColumns =>
                    an.df_processed.data["debt_to_income_ratio"]
                        = an.df.data["debt_to_income_ratio"]

\* An input with a debt_to_income_ratio column, a payment-delay column and
\* no income: only the third derivation has its event.
C14_Witness ==
    /\ pc = "an_target"
    /\ ~HasPair("debt_payments", "income")
    /\ "debt_to_income_ratio" \in RawColumns
    /\ Contains(an.df_processed.columns, "debt_to_income_ratio")
    /\ stdout = <<FeatureEvent("avg_payment_delays")>>

----------------------------------------------------------------------------
(* C15: for every input with a source column whose name contains           *)
(* payment_delay, the avg_payment_delays column of the processed dataset   *)
(* is the row-wise mean of the source payment-delay columns, the derived   *)
(* columns left out, also when the input has a column named                *)
(* avg_payment_delays.                                                     *)

DerivedNames ==
    {"debt_to_income_ratio", "credit_utilization_rate", "avg_payment_delays"}

IsSourceDelay(col) == HasPaymentDelay(col) /\ col \notin DerivedNames

C15_MeanOfSourceColumns ==
    (Derived /\ \E c \in RawColumns : IsSourceDelay(c)) =>
        an.df_processed.data["avg_payment_delays"]
            = RowMeans(an.df, SelectSeq(an.df.columns, IsSourceDelay))

----------------------------------------------------------------------------
(* C16: once analyze_data has engineered and written the processed         *)
(* dataset, every column of the raw dataset is in it with its raw values,  *)
(* and the columns it has besides are the derived ones: engineering only   *)
(* adds columns.                                                           *)

C16_OnlyAddsColumns ==
    pc = "an_summary" =>
        /\ \A c \in Range(an.df.columns) :
              /\ Contains(an.df_processed.columns, c)
              /\ an.df_processed.data[c] = an.df.data[c]
        /\ \A c \in Range(an.df_processed.columns) :
              c \notin Range(an.df.columns) => c \in DerivedNames

----------------------------------------------------------------------------
(* C17: main calls analyze_data only for the command analyze and           *)
(* train_models only for the command train, and no other stage for them;   *)
(* for any other command it prints an error line that is no structured     *)
(* event and runs no stage, and with fewer than three arguments it prints  *)
(* the usage line, runs no stage and emits no structured event.            *)

TrainPcs ==
    {"tr_load", "tr_after_analyze", "tr_target", "tr_prepare", "tr_training",
     "tr_fit", "tr_metrics", "tr_save", "tr_completed", "tr_roc", "tr_best",
     "tr_except"}

\* No stage has run since the arguments were read.
NoStage == pc = "done" /\ an = NoAnalyze /\ tr = NoTrain /\ calls = 0 /\ fs = fs0

NoStructuredEvent == \A k \in 1 .. Len(stdout) : stdout[k].type \notin EventTypes

C17_CommandDispatch ==
    /\ an.caller = "main" => Running("analyze")
    /\ (tr # NoTrain \/ pc \in TrainPcs) => Running("train")
    /\ Running("analyze") => (an.caller = "main" /\ pc \in AnalyzePcs \cup {"done"})
    /\ Running("train") =>
          (tr # NoTrain /\ an.caller # "main" /\ pc \in TrainPcs \cup AnalyzePcs \cup {"done"})
    /\ (Len(argv) = 3 /\ argv[1] \notin {"analyze", "train"}) =>
          (NoStage /\ NoStructuredEvent /\ stdout = <<TextLine("unknown command")>>)
    /\ (argv # <<>> /\ Len(argv) < 3) =>
          (NoStage /\ NoStructuredEvent /\ stdout = <<TextLine("usage")>>)

\* An unknown command has been answered.
C17_Witness ==
    /\ Len(argv) = 3
    /\ argv[1] = "predict"
    /\ stdout = <<TextLine("unknown command")>>
    /\ pc = "done"

----------------------------------------------------------------------------
(* C18: in a train run the completed event of a candidate is emitted only  *)
(* when the fitted model of the candidate is already in the file named by  *)
(* the project and the candidate; so every candidate with a completed      *)
(* event has its artifact, also after the run has failed at a later        *)
(* candidate, and two different pairs of project and candidate never have  *)
(* the same artifact path.                                                 *)

\* Project identifiers that end or begin like the names of the candidates.
PathProjects == Projects \cup {"p1_random", "p1_decision_tree", "forest", "p"}

ArtifactOf(project_id, model_name) ==
    FileAt(fs, ModelFile(project_id, model_name)) = JoblibFile(model_name)

IsCompleted(ev) == ev.type = "model_update" /\ ev.status = "completed"

C18_CompletedHasArtifact ==
    Running("train") =>
        \A k \in 1 .. Len(stdout) :
            IsCompleted(stdout[k]) => ArtifactOf(argv[3], stdout[k].name)

C18_DistinctPaths ==
    \A p, q \in PathProjects : \A m, n \in Range(model_names) :
        /\ PathString(ModelFile(p, m)) = PathString(ModelFile(q, n)) => (p = q /\ m = n)
        /\ PathString(ModelFile(p, m)) # PathString(ProcessedFile(q))
        /\ ModelFile(p, m) = ModelFile(q, n) => (p = q /\ m = n)

C18_PersistedBeforeCompleted ==
    /\ [](C18_CompletedHasArtifact /\ C18_DistinctPaths)
    /\ [][(Len(stdout') = Len(stdout) + 1 /\ IsCompleted(stdout'[Len(stdout')])) =>
              /\ ArtifactOf(tr.project_id, stdout'[Len(stdout')].name)
              /\ fs' = fs
              /\ stdout'[Len(stdout')].name = model_names[tr.i]]_vars

\* The run has failed while fitting the second candidate: the artifact of
\* the first is in place and the second has none.
C18_Witness ==
    /\ pc = "done"
    /\ Running("train")
    /\ tr.e = "cannot fit model"
    /\ tr.i = 2
    /\ Len(CompletedEvents) = 1
    /\ ArtifactOf(argv[3], model_names[1])
    /\ ModelFile(argv[3], model_names[2]) \notin DOMAIN fs

----------------------------------------------------------------------------
(* C19: as claimed, every feature column of text is encoded by an encoder  *)
(* of its own, which gives the first distinct value seen in the column the *)
(* code 0, the next new value the code 1, and so on; the other columns     *)
(* are left as they are.                                                   *)

\* train_models has encoded the features and not yet started a candidate.
Encoded == pc = "tr_training" /\ tr.i = 1 /\ tr.results = <<>>

\* The features before the encoding, and the text of a field.
Features == DropColumn(tr.df, tr.target_col)

TextOf(c, i) == AsStr(Features.data[c][i])

FirstSeen(c, i) == CHOOSE k \in 1 .. i : TextOf(c, k) = TextOf(c, i)
                                          /\ \A j \in 1 .. k - 1 : TextOf(c, j) # TextOf(c, i)

Rows == 1 .. tr.X.nrows

C19_CodesInFirstSeenOrder ==
    Encoded =>
        \A c \in Range(tr.X.columns) :
            IF IsObject(Features.data[c])
            THEN \A i \in Rows :
                    tr.X.data[c][i]
                        = Num(Cardinality({FirstSeen(c, k) : k \in Rows}
                                              \cap (1 .. FirstSeen(c, i) - 1)))
            ELSE tr.X.data[c] = Features.data[c]

(* C19, amended: every feature column of text is encoded by an encoder of  *)
(* its own, which numbers the distinct values of the column, taken as      *)
(* strings, from 0 in their sorted order, whatever the order in which they *)
(* come in the column; the other columns are left as they are.             *)

C19_CodesInSortedOrder ==
    Encoded =>
        \A c \in Range(tr.X.columns) :
            IF IsObject(Features.data[c])
            THEN /\ {tr.X.data[c][i] : i \in Rows}
                        = {Num(k) : k \in 0 .. Cardinality({TextOf(c, i) : i \in Rows}) - 1}
                 /\ \A i, j \in Rows :
                        /\ tr.X.data[c][i] = tr.X.data[c][j] <=> TextOf(c, i) = TextOf(c, j)
                        /\ tr.X.data[c][i].n < tr.X.data[c][j].n
                              <=> StrBefore(TextOf(c, i), TextOf(c, j))
            ELSE tr.X.data[c] = Features.data[c]

\* Two columns of text have been encoded, one of them with its values in
\* falling order.
C19_Witness ==
    /\ Encoded
    /\ Contains(tr.X.columns, "grade")
    /\ Contains(tr.X.columns, "branch")
    /\ tr.X.data["grade"] = <<Num(1), Num(0)>>
    /\ tr.X.data["branch"] = <<Num(0), Num(1)>>

----------------------------------------------------------------------------
(* C20: analyze_data writes the processed file of the project exactly when *)
(* it succeeds.  When it has ended with an error event and returned        *)
(* (None, None), no library call having failed on the way, the file is as  *)
(* it was before the invocation, absent if it was absent; when it has      *)
(* returned a dataset the file holds that dataset; so a train run that     *)
(* stops because analyze_data returned no data leaves no processed file    *)
(* behind.                                                                 *)

C20_WrittenIffSucceeds ==
    LET processed_file == ProcessedFile(an.project_id)
    IN  /\ (AnalyzeReturned /\ calls = 1 /\ ret.none /\ ~faults) =>
              FileAt(fs, processed_file) = FileAt(fs0, processed_file)
        /\ (AnalyzeReturned /\ calls = 1 /\ ~ret.none) =>
              FileAt(fs, processed_file) = ToCsv(ret.df)
        /\ (Running("train") /\ pc = "done" /\ calls = 1 /\ ret.none /\ ~faults) =>
              processed_file \notin DOMAIN fs

----------------------------------------------------------------------------
(* C21: the target column train_models takes from the processed dataset    *)
(* that analyze_data wrote is the column analyze_data took from the raw    *)
(* dataset: the processed columns are the raw ones followed by derived     *)
(* ones, no derived name is a candidate, and train_models finds no target  *)
(* exactly when the raw dataset has none.                                  *)

\* The header of the upload train_models was given.
RawHeader == fs0[tr.file_path].header

C21_SameTarget ==
    /\ pc \in {"an_persist", "an_summary"} =>
          /\ IsPrefix(an.df.columns, an.df_processed.columns)
          /\ \A c \in Range(an.df_processed.columns) :
                c \notin Range(an.df.columns) => (c \in DerivedNames /\ ~IsTargetName(c))
          /\ IsFirstMatch(an.df_processed.columns, an.target_col)
    /\ pc = "an_summary" =>
          fs[ProcessedFile(an.project_id)].header = an.df_processed.columns
    /\ pc = "tr_prepare" =>
          /\ IsPrefix(RawHeader, tr.df.columns)
          /\ tr.target_col # ""
          /\ IsFirstMatch(RawHeader, tr.target_col)
    /\ (Running("train") /\ pc = "done" /\ stdout # <<>>
           /\ stdout[Len(stdout)] = NoTargetLine) =>
          /\ IsPrefix(RawHeader, tr.df.columns)
          /\ IsFirstMatch(RawHeader, "")

\* train_models has its target from a processed dataset with a derived
\* column after the raw ones.
C21_Witness ==
    /\ pc = "tr_prepare"
    /\ tr.target_col # ""
    /\ Len(tr.df.columns) > Len(RawHeader)
    /\ Contains(RawHeader, tr.target_col)

----------------------------------------------------------------------------
(* C22: as claimed, for the datasets and the models, over every sequence   *)
(* of save, load and delete: save returns an identifier under which load   *)
(* returns what was saved; delete returns True exactly when there is a     *)
(* record of that identifier and removes that record only, after which     *)
(* load returns none for it and a second delete False; load and delete of  *)
(* an identifier without a record return none and False and change         *)
(* nothing.                                                                *)

\* The operation `name' has returned.
Returned(name) == op.name = name /\ ~op.raised

\* The tables other than t are as before the operation.
OthersKept(t) == \A x \in DOMAIN tables : x # t => tables[x] = tables0[x]

\* What save, load and delete of one table have done to the records.
StoreOf(t, save, load, delete) ==
    /\ Returned(save) =>
          /\ op.result.kind = "id"
          /\ op.result.id \notin DOMAIN tables0[t]
          /\ DOMAIN tables[t] = DOMAIN tables0[t] \cup {op.result.id}
          /\ tables[t][op.result.id].saved = op.args
          /\ \A x \in DOMAIN tables0[t] : tables[t][x] = tables0[t][x]
          /\ OthersKept(t)
    /\ Returned(load) =>
          /\ tables = tables0
          /\ op.args.id \notin DOMAIN tables[t] => op.result = NoneResult
    /\ Returned(delete) =>
          /\ op.result = BoolResult(op.args.id \in DOMAIN tables0[t])
          /\ DOMAIN tables[t] = DOMAIN tables0[t] \ {op.args.id}
          /\ \A x \in DOMAIN tables[t] : tables[t][x] = tables0[t][x]
          /\ OthersKept(t)

\* After a delete, the next load or delete of the same identifier.
AfterDelete(load, delete) ==
    (Returned(delete) /\ op'.name \in {load, delete} /\ ~op'.raised
        /\ op'.args.id = op.args.id) =>
        /\ op'.name = load => op'.result = NoneResult
        /\ op'.name = delete => op'.result = BoolResult(FALSE)

\* load has found a record in table t, saved from SavedOf(t).
Found(t, load) == Returned(load) /\ op.args.id \in DOMAIN tables[t]

SavedOf(t) == tables[t][op.args.id].saved

Stores ==
    /\ StoreOf("datasets", "save_dataset", "load_dataset", "delete_dataset")
    /\ StoreOf("models", "save_model", "load_model", "delete_model")

DatasetAsSaved(saved, result) ==
    /\ result.kind = "dataset"
    /\ result.data = saved.data
    /\ result.name = saved.name
    /\ result.description = saved.description

ModelAsSaved(saved, result) ==
    /\ result.kind = "model"
    /\ result.model = saved.model
    /\ result.metadata.model_name = saved.model_name
    /\ result.metadata.algorithm = saved.algorithm
    /\ result.metadata.metrics = saved.metrics
    /\ result.metadata.hyperparameters = saved.hyperparameters
    /\ result.metadata.feature_names = saved.feature_names

DatasetAsRead(saved, result) ==
    /\ result.kind = "dataset"
    /\ result.data = IF saved.data.nrows > 0 THEN saved.data ELSE NoFrame
    /\ result.name = saved.name
    /\ result.description = saved.description

ModelAsRead(saved, result) ==
    /\ result.kind = "model"
    /\ result.model = saved.model
    /\ result.metadata.model_name = saved.model_name
    /\ result.metadata.algorithm = saved.algorithm
    /\ result.metadata.metrics = saved.metrics
    /\ result.metadata.hyperparameters
          = (IF saved.hyperparameters.items # <<>> THEN saved.hyperparameters ELSE PyNone)
    /\ result.metadata.feature_names
          = (IF saved.feature_names.items # <<>> THEN saved.feature_names ELSE PyNone)

----------------------------------------------------------------------------
(* C23: as claimed, every DatabaseManager operation opens one session and  *)
(* closes it once, on the path of a record found, of none found and of an  *)
(* exception, so that no session is open after it; a writing operation     *)
(* that fails rolls the session back before it closes it, raises, and      *)
(* leaves the stored records as they were before it.                       *)

WritingOperations ==
    {"save_dataset", "delete_dataset", "save_model", "delete_model",
     "log_prediction", "save_processing_pipeline", "cleanup_old_data"}

\* One session, opened first and closed last, and none left open.
OneSession ==
    /\ open_sessions = 0
    /\ op.name # "" =>
          /\ Opened(op.session) = 1
          /\ Closed(op.session) = 1
          /\ op.session[1] = "open"
          /\ op.session[Len(op.session)] = "close"

\* A writing operation that failed has rolled back, closed and raised.
RolledBack ==
    (op.name \in WritingOperations /\ op.fault # "") =>
        /\ op.raised
        /\ Len(op.session) >= 3
        /\ op.session[Len(op.session) - 1] = "rollback"
        /\ Cardinality({i \in 1 .. Len(op.session) : op.session[i] = "rollback"}) = 1

C23_FailureLeavesRecords ==
    /\ OneSession
    /\ RolledBack
    /\ (op.name \in WritingOperations /\ op.fault # "") => tables = tables0

(* C23, amended: the sessions are as claimed; a writing operation that     *)
(* fails rolls back, closes and raises, and leaves the stored records as   *)
(* they were when it fails before its commit has gone through; a save      *)
(* that fails after its commit, when it reads the identifier of the new    *)
(* row, leaves the new row stored and no other change.                     *)

C23_SessionDiscipline ==
    /\ OneSession
    /\ RolledBack
    /\ (op.name \in WritingOperations /\ op.fault \notin {"", "refresh"}) =>
          tables = tables0
    /\ (op.name \in WritingOperations /\ op.fault = "refresh") =>
          \E t \in DOMAIN tables :
              /\ OthersKept(t)
              /\ Cardinality(DOMAIN tables[t] \ DOMAIN tables0[t]) = 1
              /\ \A x \in DOMAIN tables0[t] :
                    x \in DOMAIN tables[t] /\ tables[t][x] = tables0[t][x]
              /\ \A x \in DOMAIN tables[t] \ DOMAIN tables0[t] :
                    tables[t][x].saved = op.args
    /\ (op.name \notin WritingOperations /\ op.name # "") => tables = tables0

\* A delete has failed at its commit with a record there: the record stays.
C23_Witness ==
    /\ op.name = "delete_model"
    /\ op.fault = "commit"
    /\ op.raised
    /\ op.args.id \in DOMAIN tables.models
    /\ op.session = <<"open", "query", "delete", "commit", "rollback", "close">>
    /\ open_sessions = 0

====
